---- MODULE Spec2Model ----
(***************************************************************************)
(* Model of the snow-drift engine of helpers/Snow_drift.py.                *)
(*                                                                         *)
(* Numbers.  The code computes in binary floating point.  The model        *)
(* computes the same expressions in exact rational arithmetic: a number    *)
(* is a pair <<n, d>> with d > 0 in lowest terms.  Wind speeds are taken   *)
(* from the perfect fifth powers, on which u ** 3.8 = u ** (19/5) is an    *)
(* integer, and F / T from the integers, on which 0.14 ** (F / T) is       *)
(* rational, so every value of the model is the exact value of the         *)
(* expression of the code.  Rounding of the floating point operations is   *)
(* not modelled.  Wind directions are in hundredths of a degree.           *)
(* Timestamps are tuples <<year, month, day, hour, minute, second>>.       *)
(***************************************************************************)
EXTENDS Integers, Sequences, FiniteSets, TLC

VARIABLES
    op,          \* the operation that ran last ("idle": none since the return)
    outcome,     \* how it ended: "-", "ok", "no_data", or the exception raised
    args,        \* the arguments it was called with
    df,          \* the wrapper's local table after the season filter
    df_yearly,   \* the per-season table it returned
    df_monthly,  \* the per-month table it returned
    fig_rose,    \* the wind rose it returned: one bar per label
    ret,         \* the value returned: a core function's result, a wrapper's triple
    heap,        \* the tables that exist after the call; heap[1] is the caller's
    first,       \* what the caller kept of the first of two calls
    session_state,  \* st.session_state of the browser session: a dict
    query_params,   \* st.query_params: the parameters of the URL, a dict
    clicked         \* history: the map clicks of the session, oldest first

vars == <<op, outcome, args, df, df_yearly, df_monthly, fig_rose, ret, heap, first,
          session_state, query_params, clicked>>

-----------------------------------------------------------------------------
(* Exact rational arithmetic on non-negative numbers *)

RECURSIVE GCD(_, _)
GCD(a, b) == IF b = 0 THEN a ELSE GCD(b, a % b)

RatNorm(n, d) ==
    LET g == GCD(n, d) IN <<n \div g, d \div g>>

Rat(n) == <<n, 1>>

RatZero == <<0, 1>>

RatAdd(x, y) ==
    IF x[2] = y[2] THEN RatNorm(x[1] + y[1], x[2])
    ELSE LET g == GCD(x[2], y[2])
         IN RatNorm(x[1] * (y[2] \div g) + y[1] * (x[2] \div g), (x[2] \div g) * y[2])

RatMul(x, y) ==
    LET g1 == GCD(x[1], y[2])
        g2 == GCD(y[1], x[2])
    IN IF x[1] = 0 \/ y[1] = 0 THEN RatZero
       ELSE <<(x[1] \div g1) * (y[1] \div g2), (x[2] \div g2) * (y[2] \div g1)>>

\* 1 - x for 0 <= x <= 1
RatOneMinus(x) == RatNorm(x[2] - x[1], x[2])

RECURSIVE RatLess(_, _)
RatLess(x, y) ==
    LET qx == x[1] \div x[2]
        qy == y[1] \div y[2]
        rx == x[1] % x[2]
        ry == y[1] % y[2]
    IN IF qx # qy THEN qx < qy
       ELSE IF rx = 0 THEN ry > 0
       ELSE IF ry = 0 THEN FALSE
       ELSE RatLess(<<y[2], ry>>, <<x[2], rx>>)

RatLeq(x, y) == ~RatLess(y, x)

RECURSIVE IntPow(_, _)
IntPow(b, e) == IF e = 0 THEN 1 ELSE b * IntPow(b, e - 1)

RECURSIVE RatPow(_, _)
RatPow(x, e) == IF e = 0 THEN Rat(1) ELSE RatMul(x, RatPow(x, e - 1))

-----------------------------------------------------------------------------
(* Tabler core functions *)

DefaultDt == 3600

TablerDivisor == 233847

Min(a, b) == IF a < b THEN a ELSE b

\* u ** 3.8 = (u ** (1/5)) ** 19, exact on the perfect fifth powers
Pow38(u) ==
    LET r == CHOOSE x \in 0..u : IntPow(x, 5) = u IN IntPow(r, 19)

\* ((u ** 3.8) * dt) / 233847, one sample's transport
Weight(u, dt) == RatNorm(Pow38(u) * dt, TablerDivisor)

RECURSIVE SumRat(_)
SumRat(xs) == IF xs = <<>> THEN RatZero ELSE RatAdd(Head(xs), SumRat(Tail(xs)))

RECURSIVE SumInt(_)
SumInt(xs) == IF xs = <<>> THEN 0 ELSE Head(xs) + SumInt(Tail(xs))

\* compute_Qupot with the sign of the sum turned
compute_Qupot_negated(hourly_wind_speeds, dt) ==
    RatMul(Rat(0 - SumInt([i \in 1..Len(hourly_wind_speeds) |-> Pow38(hourly_wind_speeds[i])])),
           RatNorm(dt, TablerDivisor))

\* sum((u ** 3.8) * dt for u in winds) / 233847: the samples are summed first
\* and divided once; dt is taken out of the sum, which is the same number and
\* keeps the sum within 32 bits
compute_Qupot(hourly_wind_speeds, dt) ==
    RatMul(Rat(SumInt([i \in 1..Len(hourly_wind_speeds) |-> Pow38(hourly_wind_speeds[i])])),
           RatNorm(dt, TablerDivisor))

\* sector_index without the wrap-around (% 360 left out)
sector_index_no_wrap(direction) == (direction + 1125) \div 2250

\* sector_index without the half-sector offset (+ 11.25 left out)
sector_index_no_offset(direction) == (direction % 36000) \div 2250

\* int(((direction + 11.25) % 360) // 22.5), direction in hundredths of a degree
sector_index(direction) == ((direction + 1125) % 36000) \div 2250

\* compute_sector_transport with = for +=: a sector keeps its last sample
compute_sector_transport_assign(hourly_wind_speeds, hourly_wind_dirs, dt) ==
    LET n == Min(Len(hourly_wind_speeds), Len(hourly_wind_dirs))
        hit(k) == SelectSeq([i \in 1..n |-> i],
                            LAMBDA i : sector_index(hourly_wind_dirs[i]) = k)
    IN [k \in 1..16 |->
          IF hit(k - 1) = <<>> THEN RatZero
          ELSE Weight(hourly_wind_speeds[hit(k - 1)[Len(hit(k - 1))]], dt)]

\* zip() pairs the two lists up to the shorter one
compute_sector_transport(hourly_wind_speeds, hourly_wind_dirs, dt) ==
    LET n == Min(Len(hourly_wind_speeds), Len(hourly_wind_dirs))
        hit(k) == SelectSeq([i \in 1..n |-> i],
                            LAMBDA i : sector_index(hourly_wind_dirs[i]) = k)
    IN [k \in 1..16 |->
          SumRat([j \in 1..Len(hit(k - 1)) |->
                     Weight(hourly_wind_speeds[hit(k - 1)[j]], dt)])]

ZeroDivisionError == [exception |-> "ZeroDivisionError"]

IsException(r) == "exception" \in DOMAIN r

\* 0.14 ** (F / T) for F a multiple of T
DecayBase == <<7, 50>>

\* the decay term with its sign turned: 0.14 ** (F / T) - 1
Saturation_negated(F, T) ==
    LET x == RatPow(DecayBase, F \div T) IN RatNorm(x[1] - x[2], x[2])

Saturation(F, T) == RatOneMinus(RatPow(DecayBase, F \div T))

\* compute_snow_transport with the regime test taken as Qupot >= Qspot
compute_snow_transport_geq(T, F, theta, Swe, hourly_wind_speeds, dt) ==
    LET Qupot == compute_Qupot(hourly_wind_speeds, dt)
        Qspot == RatMul(<<1, 2>>, Rat(T * Swe))
        Srwe  == RatMul(theta, Rat(Swe))
        snowfall == RatLeq(Qspot, Qupot)
        Qinf  == IF snowfall THEN RatMul(<<1, 2>>, RatMul(Rat(T), Srwe)) ELSE Qupot
        control == IF snowfall THEN "Snowfall controlled" ELSE "Wind controlled"
    IN IF T = 0 THEN ZeroDivisionError
       ELSE [Qupot |-> Qupot, Qspot |-> Qspot, Srwe |-> Srwe, Qinf |-> Qinf,
             Qt |-> RatMul(Qinf, Saturation(F, T)), Control |-> control]

\* compute_snow_transport with the regime test inverted (Qupot < Qspot)
compute_snow_transport_inverted(T, F, theta, Swe, hourly_wind_speeds, dt) ==
    LET Qupot == compute_Qupot(hourly_wind_speeds, dt)
        Qspot == RatMul(<<1, 2>>, Rat(T * Swe))
        Srwe  == RatMul(theta, Rat(Swe))
        snowfall == RatLess(Qupot, Qspot)
        Qinf  == IF snowfall THEN RatMul(<<1, 2>>, RatMul(Rat(T), Srwe)) ELSE Qupot
        control == IF snowfall THEN "Snowfall controlled" ELSE "Wind controlled"
    IN IF T = 0 THEN ZeroDivisionError
       ELSE [Qupot |-> Qupot, Qspot |-> Qspot, Srwe |-> Srwe, Qinf |-> Qinf,
             Qt |-> RatMul(Qinf, Saturation(F, T)), Control |-> control]

\* compute_snow_transport with the factor 0.5 of Qinf left out
compute_snow_transport_no_half(T, F, theta, Swe, hourly_wind_speeds, dt) ==
    LET Qupot == compute_Qupot(hourly_wind_speeds, dt)
        Qspot == RatMul(<<1, 2>>, Rat(T * Swe))
        Srwe  == RatMul(theta, Rat(Swe))
        snowfall == RatLess(Qspot, Qupot)
        Qinf  == IF snowfall THEN RatMul(Rat(T), Srwe) ELSE Qupot
        control == IF snowfall THEN "Snowfall controlled" ELSE "Wind controlled"
    IN IF T = 0 THEN ZeroDivisionError
       ELSE [Qupot |-> Qupot, Qspot |-> Qspot, Srwe |-> Srwe, Qinf |-> Qinf,
             Qt |-> RatMul(Qinf, Saturation(F, T)), Control |-> control]

\* compute_snow_transport with a guard on T: Qt = 0 when T = 0
compute_snow_transport_guarded(T, F, theta, Swe, hourly_wind_speeds, dt) ==
    LET Qupot == compute_Qupot(hourly_wind_speeds, dt)
        Qspot == RatMul(<<1, 2>>, Rat(T * Swe))
        Srwe  == RatMul(theta, Rat(Swe))
        snowfall == RatLess(Qspot, Qupot)
        Qinf  == IF snowfall THEN RatMul(<<1, 2>>, RatMul(Rat(T), Srwe)) ELSE Qupot
        control == IF snowfall THEN "Snowfall controlled" ELSE "Wind controlled"
    IN [Qupot |-> Qupot, Qspot |-> Qspot, Srwe |-> Srwe, Qinf |-> Qinf,
        Qt |-> IF T = 0 THEN RatZero ELSE RatMul(Qinf, Saturation(F, T)),
        Control |-> control]

compute_snow_transport(T, F, theta, Swe, hourly_wind_speeds, dt) ==
    LET Qupot == compute_Qupot(hourly_wind_speeds, dt)
        Qspot == RatMul(<<1, 2>>, Rat(T * Swe))
        Srwe  == RatMul(theta, Rat(Swe))
        snowfall == RatLess(Qspot, Qupot)
        Qinf  == IF snowfall THEN RatMul(<<1, 2>>, RatMul(Rat(T), Srwe)) ELSE Qupot
        control == IF snowfall THEN "Snowfall controlled" ELSE "Wind controlled"
    IN IF T = 0 THEN ZeroDivisionError
       ELSE [Qupot |-> Qupot, Qspot |-> Qspot, Srwe |-> Srwe, Qinf |-> Qinf,
             Qt |-> RatMul(Qinf, Saturation(F, T)), Control |-> control]

-----------------------------------------------------------------------------
(* Year assignment (July -> June) *)

Timestamp(year, month, day, hour, minute) == <<year, month, day, hour, minute, 0>>

RECURSIVE LexLess(_, _)
LexLess(a, b) ==
    IF a = <<>> THEN FALSE
    ELSE IF Head(a) # Head(b) THEN Head(a) < Head(b)
    ELSE LexLess(Tail(a), Tail(b))

TimeLeq(a, b) == ~LexLess(b, a)

\* assign_season with the cutover a month late (month > 7)
assign_season_august(dt) == IF dt[2] > 7 THEN dt[1] ELSE dt[1] - 1

assign_season(dt) == IF dt[2] >= 7 THEN dt[1] ELSE dt[1] - 1

-----------------------------------------------------------------------------
(* Calendar arithmetic of pandas Timestamps *)

IsLeap(y) == (y % 4 = 0 /\ y % 100 # 0) \/ y % 400 = 0

DaysInMonth(y, m) ==
    IF m = 2 THEN (IF IsLeap(y) THEN 29 ELSE 28)
    ELSE IF m \in {4, 6, 9, 11} THEN 30 ELSE 31

RECURSIVE DaysBeforeMonth(_, _)
DaysBeforeMonth(y, m) ==
    IF m = 1 THEN 0 ELSE DaysBeforeMonth(y, m - 1) + DaysInMonth(y, m - 1)

RECURSIVE DaysBeforeYear(_)
DaysBeforeYear(y) ==
    IF y <= 2000 THEN 0
    ELSE DaysBeforeYear(y - 1) + (IF IsLeap(y - 1) THEN 366 ELSE 365)

\* seconds from 2000-01-01 00:00:00 to the timestamp
EpochSeconds(t) ==
    (DaysBeforeYear(t[1]) + DaysBeforeMonth(t[1], t[2]) + (t[3] - 1)) * 86400
    + t[4] * 3600 + t[5] * 60 + t[6]

\* (b - a).total_seconds(); total_seconds() * 1000 exceeds 32 bits, so the
\* width columns hold the seconds and width_ms is 1000 times the column
TotalSeconds(a, b) == EpochSeconds(b) - EpochSeconds(a)

\* dt.to_period("M").dt.to_timestamp()
MonthStart(t) == <<t[1], t[2], 1, 0, 0, 0>>

-----------------------------------------------------------------------------
(* Tables: a DataFrame is a sequence of rows, a row a record of its columns *)

DataFrame(rows) == [rows |-> rows]

Column(rows, c) == [i \in 1..Len(rows) |-> rows[i][c]]

RECURSIVE SetToSortedSeq(_)
SetToSortedSeq(S) ==
    IF S = {} THEN <<>>
    ELSE LET m == CHOOSE x \in S : \A y \in S : x <= y
         IN <<m>> \o SetToSortedSeq(S \ {m})

\* sorted(df["season"].unique())
SortedSeasons(rows) == SetToSortedSeq({rows[i].season : i \in 1..Len(rows)})

\* df["season"] = df["time"].apply(assign_season)
WithSeason(rows) ==
    [i \in 1..Len(rows) |-> rows[i] @@ [season |-> assign_season(rows[i].time)]]

\* the range filter with its upper end left out
SeasonFilter_no_upper(rows, start_year, end_year) ==
    SelectSeq(rows, LAMBDA r : r.season >= start_year)

\* df[(df["season"] >= start_year) & (df["season"] <= end_year)]
SeasonFilter(rows, start_year, end_year) ==
    SelectSeq(rows, LAMBDA r : r.season >= start_year /\ r.season <= end_year)

RECURSIVE InsertByTime(_, _)
InsertByTime(r, sorted) ==
    IF sorted = <<>> THEN <<r>>
    ELSE IF LexLess(r.time, Head(sorted).time) THEN <<r>> \o sorted
    ELSE <<Head(sorted)>> \o InsertByTime(r, Tail(sorted))

\* df.sort_values("time")
RECURSIVE SortByTime(_)
SortByTime(rows) ==
    IF rows = <<>> THEN <<>>
    ELSE InsertByTime(rows[Len(rows)], SortByTime(SubSeq(rows, 1, Len(rows) - 1)))

SeasonStart(s) == Timestamp(s, 7, 1, 0, 0)

\* the end of the window taken through the last second of June 30
SeasonEnd_last_second(s) == <<s + 1, 6, 30, 23, 59, 59>>

SeasonEnd(s) == Timestamp(s + 1, 6, 30, 23, 59)


\* the window without its first instant (time > start)
SeasonWindow_open_start(rows, s) ==
    SelectSeq(rows, LAMBDA r : LexLess(SeasonStart(s), r.time) /\ TimeLeq(r.time, SeasonEnd(s)))

\* df[(df["time"] >= start) & (df["time"] <= end)]
SeasonWindow(rows, s) ==
    SelectSeq(rows, LAMBDA r : TimeLeq(SeasonStart(s), r.time) /\ TimeLeq(r.time, SeasonEnd(s)))

\* Swe_hourly with the threshold included (temperature_2m <= 1)
Swe_hourly_leq(r) == IF r.temperature_2m <= 1 THEN r.precipitation ELSE 0

\* precipitation if temperature_2m < 1 else 0
Swe_hourly(r) == IF r.temperature_2m < 1 THEN r.precipitation ELSE 0

SweOf(rows) == SumInt([i \in 1..Len(rows) |-> Swe_hourly(rows[i])])

\* the loop without its "if df_s.empty: continue"
LoopSeasons_no_skip(rows) == SortedSeasons(rows)

\* the seasons of the loop whose window holds at least one row
LoopSeasons(rows) ==
    SelectSeq(SortedSeasons(rows), LAMBDA s : SeasonWindow(rows, s) # <<>>)

SeasonResult(rows, s, T, F, theta) ==
    compute_snow_transport(T, F, theta, SweOf(SeasonWindow(rows, s)),
                           Column(SeasonWindow(rows, s), "wind_speed_10m"), DefaultDt)

compute_yearly_results(rows, T, F, theta) ==
    LET seasons == LoopSeasons(rows)
    IN IF \E i \in 1..Len(seasons) : IsException(SeasonResult(rows, seasons[i], T, F, theta))
       THEN ZeroDivisionError
       ELSE DataFrame([i \in 1..Len(seasons) |->
                SeasonResult(rows, seasons[i], T, F, theta) @@ [season |-> seasons[i]]])

RatDivInt(x, n) == RatMul(x, <<1, n>>)

\* the mean with every season weighted by its number of rows
compute_average_sector_weighted(rows) ==
    LET seasons == SortedSeasons(rows)
        grp(s) == SelectSeq(rows, LAMBDA r : r.season = s)
        sectors == [i \in 1..Len(seasons) |->
                      compute_sector_transport(Column(grp(seasons[i]), "wind_speed_10m"),
                                               Column(grp(seasons[i]), "wind_direction_10m"),
                                               DefaultDt)]
    IN [k \in 1..16 |->
          RatDivInt(SumRat([i \in 1..Len(seasons) |->
                              RatMul(Rat(Len(grp(seasons[i]))), sectors[i][k])]),
                    Len(rows))]

\* np.mean(sectors, axis=0) over the groups of df.groupby("season")
compute_average_sector(rows) ==
    LET seasons == SortedSeasons(rows)
        grp(s) == SelectSeq(rows, LAMBDA r : r.season = s)
        sectors == [i \in 1..Len(seasons) |->
                      compute_sector_transport(Column(grp(seasons[i]), "wind_speed_10m"),
                                               Column(grp(seasons[i]), "wind_direction_10m"),
                                               DefaultDt)]
    IN [k \in 1..16 |->
          RatDivInt(SumRat([i \in 1..Len(seasons) |-> sectors[i][k]]), Len(seasons))]

dirs == <<"N", "NNE", "NE", "ENE", "E", "ESE", "SE", "SSE",
          "S", "SSW", "SW", "WSW", "W", "WNW", "NW", "NNW">>

\* go.Barpolar(r=avg_sectors / 1000, theta=dirs)
make_plotly_wind_rose(avg_sectors) ==
    [k \in 1..16 |-> [theta |-> dirs[k], r |-> RatDivInt(avg_sectors[k], 1000)]]

-----------------------------------------------------------------------------
(* Inputs *)

MaxRows == 3

MaxSamples == 2

FirstYear == 2020

LastYear == 2021

\* the season range the caller may ask for
Years == FirstYear..LastYear

\* the timestamps of the observations: the first and the last minute of a
\* season's window and the half minute after it
Times ==
    { <<FirstYear, 7, 1, 0, 0, 0>>,
      <<FirstYear + 1, 6, 30, 23, 59, 0>>, <<FirstYear + 1, 6, 30, 23, 59, 30>>,
      <<LastYear, 7, 1, 0, 0, 0>>, <<LastYear + 1, 6, 30, 23, 59, 0>> }

\* the weather of one hour: snow and calm; rain at the threshold in a storm;
\* snow in a breeze
Weather ==
    { [temperature_2m |-> 0,  precipitation |-> 5, wind_speed_10m |-> 0,  wind_direction_10m |-> 0],
      [temperature_2m |-> 1,  precipitation |-> 5, wind_speed_10m |-> 32, wind_direction_10m |-> 34875],
      [temperature_2m |-> -5, precipitation |-> 5, wind_speed_10m |-> 1,  wind_direction_10m |-> 1125] }

Observations == { [time |-> t] @@ w : t \in Times, w \in Weather }

\* hourly series as the weather download returns them: in time order, one
\* row per timestamp
RECURSIVE TablesOfLen(_)
TablesOfLen(n) ==
    IF n = 0 THEN { <<>> }
    ELSE UNION { { Append(t, r) : r \in { o \in Observations :
                                            \A i \in 1..(n - 1) : LexLess(t[i].time, o.time) } } :
                 t \in TablesOfLen(n - 1) }

Tables == UNION { TablesOfLen(n) : n \in 0..MaxRows }

Ts == {0, 3000}

Fs == {0, 3000}

Thetas == { <<1, 2>>, <<1, 1>> }

WindSpeeds == {0, 1, 32}

Directions ==
    {0, 1124, 1125, 3374, 3375, 18000, 32624, 32625, 34874, 34875, 35999, 36000,
     -1, -1125, -1126, -36000, 37125, 72000}

SweValues == {0, 5, 6, 10}

\* the timestamps assign_season is called on: those of the observations, the
\* two sides of the cutover of 2021, and the first of every month
SeasonTimes ==
    Times \cup { <<2021, 6, 30, 23, 59, 0>>, <<2021, 7, 1, 0, 0, 0>> }
          \cup { <<y, m, 1, 0, 0, 0>> : y \in Years, m \in 1..12 }

\* the directions of the samples of a series: a sector's centre, its two
\* ends, the far side of the rose and a full turn
SampleDirections == {0, 1125, 18000, 34874, 36000}

\* (T, F, theta) of a wrapper call: fetch equal to T; no fetch and theta = 1;
\* T = 0
Parameters == { <<3000, 3000, <<1, 2>>>>, <<3000, 0, <<1, 1>>>>, <<0, 3000, <<1, 2>>>> }

RECURSIVE SeqsUpTo(_, _)
SeqsUpTo(S, n) ==
    IF n = 0 THEN { <<>> }
    ELSE SeqsUpTo(S, n - 1)
         \cup { Append(q, x) : q \in { p \in SeqsUpTo(S, n - 1) : Len(p) = n - 1 }, x \in S }

-----------------------------------------------------------------------------
(* Operations *)

\* the objects of the early returns of the wrappers
None == "None"

EmptyFigure == "go.Figure()"

EmptyDataFrame == "pd.DataFrame()"

NoResult == <<>>

\* the caller has made no first call
NoFirst == [calls |-> 0]

\* {}: a dict is a function from its keys
EmptyDict == <<>>

Init ==
    /\ op = "idle"
    /\ outcome = "-"
    /\ args = NoResult
    /\ df = <<>>
    /\ df_yearly = <<>>
    /\ df_monthly = <<>>
    /\ fig_rose = <<>>
    /\ ret = NoResult
    /\ heap = <<>>
    /\ first = NoFirst
    /\ session_state = EmptyDict
    /\ query_params = EmptyDict
    /\ clicked = <<>>

Call_sector_index ==
    /\ op = "idle"
    /\ \E d \in Directions :
         /\ args' = [direction |-> d]
         /\ ret' = sector_index(d)
    /\ op' = "sector_index"
    /\ outcome' = "ok"
    /\ UNCHANGED <<df, df_yearly, df_monthly, fig_rose, heap, first, session_state, query_params, clicked>>

Call_assign_season ==
    /\ op = "idle"
    /\ \E t \in SeasonTimes :
         /\ args' = [dt |-> t]
         /\ ret' = assign_season(t)
    /\ op' = "assign_season"
    /\ outcome' = "ok"
    /\ UNCHANGED <<df, df_yearly, df_monthly, fig_rose, heap, first, session_state, query_params, clicked>>

Call_compute_Qupot ==
    /\ op = "idle"
    /\ \E ws \in SeqsUpTo(WindSpeeds, MaxSamples) :
         /\ args' = [hourly_wind_speeds |-> ws]
         /\ ret' = compute_Qupot(ws, DefaultDt)
    /\ op' = "compute_Qupot"
    /\ outcome' = "ok"
    /\ UNCHANGED <<df, df_yearly, df_monthly, fig_rose, heap, first, session_state, query_params, clicked>>

\* the two lists are any two lists: nothing in the function compares their
\* lengths, and zip() raises on neither
Call_compute_sector_transport ==
    /\ op = "idle"
    /\ \E ws \in SeqsUpTo(WindSpeeds, MaxSamples), wd \in SeqsUpTo(SampleDirections, MaxSamples) :
         /\ args' = [hourly_wind_speeds |-> ws, hourly_wind_dirs |-> wd]
         /\ ret' = compute_sector_transport(ws, wd, DefaultDt)
    /\ op' = "compute_sector_transport"
    /\ outcome' = "ok"
    /\ UNCHANGED <<df, df_yearly, df_monthly, fig_rose, heap, first, session_state, query_params, clicked>>

Call_compute_snow_transport ==
    /\ op = "idle"
    /\ \E T \in Ts, F \in Fs, theta \in Thetas, Swe \in SweValues,
          ws \in SeqsUpTo(WindSpeeds, MaxSamples) :
         LET r == compute_snow_transport(T, F, theta, Swe, ws, DefaultDt)
         IN /\ args' = [T |-> T, F |-> F, theta |-> theta, Swe |-> Swe,
                        hourly_wind_speeds |-> ws]
            /\ ret' = r
            /\ outcome' = IF IsException(r) THEN r.exception ELSE "ok"
    /\ op' = "compute_snow_transport"
    /\ UNCHANGED <<df, df_yearly, df_monthly, fig_rose, heap, first, session_state, query_params, clicked>>

\* the call ends: its outcome, its tables and figure, the objects it leaves
Returns(r) ==
    /\ outcome' = r.outcome
    /\ df' = r.df
    /\ df_yearly' = r.df_yearly
    /\ df_monthly' = r.df_monthly
    /\ fig_rose' = r.fig_rose
    /\ ret' = r.ret
    /\ heap' = r.heap

\* df_yearly["start"], ["end"], ["width_ms"], ["Qt_yearly"] of the wrapper
DriftColumns(row) ==
    LET start == Timestamp(row.season, 7, 1, 0, 0)
        end   == Timestamp(row.season + 1, 6, 30, 0, 0)
    IN row @@ [start |-> start, end |-> end, width_s |-> TotalSeconds(start, end),
               Qt_yearly |-> row.Qt]

\* pandas objects: the heap is the sequence of the tables that exist, a
\* reference is an index into it; object 1 is the table the caller passed
\* df.copy(): a new object with the rows of the old one
copy_alias(objs, ref) == [heap |-> objs, ref |-> ref]

copy(objs, ref) == [heap |-> Append(objs, objs[ref]), ref |-> Len(objs) + 1]

\* df_s["Swe_hourly"] = df_s.apply(...)
WithSwe(rows) == [i \in 1..Len(rows) |-> rows[i] @@ [Swe_hourly |-> Swe_hourly(rows[i])]]

\* the objects compute_yearly_results makes of the table at ref: for every
\* season the selection of its window, the copy of it, and the Swe_hourly
\* column set on the copy unless it is empty
RECURSIVE yearly_frames(_, _, _)
yearly_frames(objs, ref, seasons) ==
    IF seasons = <<>> THEN objs
    ELSE LET sel == Append(objs, SeasonWindow(objs[ref], Head(seasons)))
             c   == copy(sel, Len(sel))
             h   == IF c.heap[c.ref] = <<>> THEN c.heap
                    ELSE [c.heap EXCEPT ![c.ref] = WithSwe(@)]
         IN yearly_frames(h, ref, Tail(seasons))

\* df = df_raw.copy(); df["season"] = ...; df = df[(season range)]
drift_frames(df_raw, start_year, end_year) ==
    LET c  == copy(<<df_raw>>, 1)
        h1 == [c.heap EXCEPT ![c.ref] = WithSeason(@)]
        h2 == Append(h1, SeasonFilter(h1[c.ref], start_year, end_year))
    IN [heap |-> h2, df |-> Len(h2)]

\* what a call of compute_snow_drift_plotly leaves: how it ended, its local
\* table, the tables and the figure it returned, the objects on the heap
snow_drift_result(df_raw, start_year, end_year, T, F, theta) ==
    LET fr       == drift_frames(df_raw, start_year, end_year)
        filtered == fr.heap[fr.df]
        yearly   == compute_yearly_results(filtered, T, F, theta)
        frames   == yearly_frames(fr.heap, fr.df, SortedSeasons(filtered))
    IN IF filtered = <<>>
       THEN [outcome |-> "no_data", df |-> filtered, df_yearly |-> <<>>, df_monthly |-> <<>>,
             fig_rose |-> <<>>, ret |-> <<None, None, None>>, heap |-> fr.heap]
       ELSE IF IsException(yearly)
       THEN [outcome |-> yearly.exception, df |-> filtered, df_yearly |-> <<>>,
             df_monthly |-> <<>>, fig_rose |-> <<>>, ret |-> NoResult, heap |-> frames]
       ELSE IF yearly.rows = <<>>
       THEN \* df_yearly["season"] on a DataFrame without columns
            [outcome |-> "KeyError", df |-> filtered, df_yearly |-> <<>>,
             df_monthly |-> <<>>, fig_rose |-> <<>>, ret |-> NoResult, heap |-> frames]
       ELSE [outcome |-> "ok", df |-> filtered,
             df_yearly |-> [i \in 1..Len(yearly.rows) |-> DriftColumns(yearly.rows[i])],
             df_monthly |-> <<>>,
             fig_rose |-> make_plotly_wind_rose(compute_average_sector(filtered)),
             ret |-> <<"fig_Qt", "fig_rose", "df_yearly">>, heap |-> frames]

Call_compute_snow_drift_plotly(tables) ==
    /\ op = "idle"
    /\ \E df_raw \in tables, start_year \in Years, end_year \in Years, p \in Parameters :
         LET r == snow_drift_result(df_raw, start_year, end_year, p[1], p[2], p[3])
         IN /\ args' = [df_raw |-> df_raw, start_year |-> start_year, end_year |-> end_year,
                        T |-> p[1], F |-> p[2], theta |-> p[3]]
            /\ Returns(r)
    /\ op' = "compute_snow_drift_plotly"
    /\ UNCHANGED <<first, session_state, query_params, clicked>>

compute_snow_drift_plotly == Call_compute_snow_drift_plotly(Tables)

\* one record of yearly_records with the center and width_ms columns
YearlyRecord(rows, s, T, F, theta) ==
    LET season_start == Timestamp(s, 7, 1, 0, 0)
        season_end   == Timestamp(s + 1, 6, 30, 23, 59)
        season_df    == SelectSeq(rows, LAMBDA r : TimeLeq(season_start, r.time)
                                                   /\ TimeLeq(r.time, season_end))
        out == compute_snow_transport(T, F, theta, SweOf(season_df),
                                      Column(season_df, "wind_speed_10m"), DefaultDt)
    IN IF season_df = <<>> THEN [skipped |-> TRUE]
       ELSE IF IsException(out) THEN out
       ELSE [season |-> s, Qt_yearly |-> out.Qt,
             season_start |-> season_start, season_end |-> season_end,
             center_offset_s |-> TotalSeconds(season_start, season_end) \div 2,
             width_s |-> TotalSeconds(season_start, season_end)]

\* the groups of df.groupby(["season", "month_start"]), in key order
MonthlyKeys(rows) ==
    LET keys == { <<rows[i].season>> \o MonthStart(rows[i].time) : i \in 1..Len(rows) }
    IN keys

RECURSIVE SortKeys(_)
SortKeys(S) ==
    IF S = {} THEN <<>>
    ELSE LET m == CHOOSE x \in S : \A y \in S : ~LexLess(y, x)
         IN <<m>> \o SortKeys(S \ {m})

MonthlyRecord(rows, key, T, F, theta) ==
    LET g == SelectSeq(rows, LAMBDA r : <<r.season>> \o MonthStart(r.time) = key)
        out_m == compute_snow_transport(T, F, theta, SweOf(g),
                                        Column(g, "wind_speed_10m"), DefaultDt)
    IN [season |-> key[1], month |-> Tail(key), Qt_monthly |-> out_m.Qt]

\* df = df_raw.copy().sort_values("time"); df["season"] = ...;
\* df = df[(season range)]
monthly_frames(df_raw, year_start, year_end) ==
    LET c  == copy(<<df_raw>>, 1)
        h1 == Append(c.heap, SortByTime(c.heap[c.ref]))
        h2 == [h1 EXCEPT ![Len(h1)] = WithSeason(@)]
        h3 == Append(h2, SeasonFilter(h2[Len(h2)], year_start, year_end))
    IN [heap |-> h3, df |-> Len(h3)]

\* df["month_start"] = df["time"].dt.to_period("M").dt.to_timestamp()
WithMonthStart(rows) ==
    [i \in 1..Len(rows) |-> rows[i] @@ [month_start |-> MonthStart(rows[i].time)]]

\* what a call of compute_monthly_and_yearly_Qt_plotly leaves
monthly_and_yearly_Qt_result(df_raw, year_start, year_end, T, F, theta) ==
    LET fr       == monthly_frames(df_raw, year_start, year_end)
        filtered == fr.heap[fr.df]
        seasons  == SortedSeasons(filtered)
        records  == [i \in 1..Len(seasons) |-> YearlyRecord(filtered, seasons[i], T, F, theta)]
        kept     == SelectSeq(records, LAMBDA r : "skipped" \notin DOMAIN r)
        keys     == SortKeys(MonthlyKeys(filtered))
    IN IF filtered = <<>>
       THEN [outcome |-> "no_data", df |-> filtered, df_yearly |-> <<>>, df_monthly |-> <<>>,
             fig_rose |-> <<>>,
             ret |-> <<EmptyFigure, EmptyDataFrame, EmptyDataFrame>>, heap |-> fr.heap]
       ELSE IF \E i \in 1..Len(kept) : IsException(kept[i])
       THEN [outcome |-> "ZeroDivisionError", df |-> filtered, df_yearly |-> <<>>,
             df_monthly |-> <<>>, fig_rose |-> <<>>, ret |-> NoResult, heap |-> fr.heap]
       ELSE IF kept = <<>>
       THEN [outcome |-> "no_yearly", df |-> filtered, df_yearly |-> <<>>,
             df_monthly |-> <<>>, fig_rose |-> <<>>,
             ret |-> <<EmptyFigure, EmptyDataFrame, EmptyDataFrame>>, heap |-> fr.heap]
       ELSE [outcome |-> "ok", df |-> filtered, df_yearly |-> kept,
             df_monthly |-> [i \in 1..Len(keys) |->
                                MonthlyRecord(filtered, keys[i], T, F, theta)],
             fig_rose |-> <<>>,
             ret |-> <<"fig", "df_yearly", "df_monthly">>,
             heap |-> [fr.heap EXCEPT ![fr.df] = WithMonthStart(@)]]

Call_compute_monthly_and_yearly_Qt_plotly(tables) ==
    /\ op = "idle"
    /\ \E df_raw \in tables, year_start \in Years, year_end \in Years, p \in Parameters :
         LET r == monthly_and_yearly_Qt_result(df_raw, year_start, year_end, p[1], p[2], p[3])
         IN /\ args' = [df_raw |-> df_raw, start_year |-> year_start, end_year |-> year_end,
                        T |-> p[1], F |-> p[2], theta |-> p[3]]
            /\ Returns(r)
    /\ op' = "compute_monthly_and_yearly_Qt_plotly"
    /\ UNCHANGED <<first, session_state, query_params, clicked>>

compute_monthly_and_yearly_Qt_plotly == Call_compute_monthly_and_yearly_Qt_plotly(Tables)

\* the caller takes the result; the locals of the call are gone
Return ==
    /\ op # "idle"
    /\ op' = "idle"
    /\ outcome' = "-"
    /\ args' = NoResult
    /\ df' = <<>>
    /\ df_yearly' = <<>>
    /\ df_monthly' = <<>>
    /\ fig_rose' = <<>>
    /\ ret' = NoResult
    /\ heap' = <<>>
    /\ first' = NoFirst
    /\ UNCHANGED <<session_state, query_params, clicked>>

Next ==
    \/ Call_sector_index
    \/ Call_assign_season
    \/ Call_compute_Qupot
    \/ Call_compute_sector_transport
    \/ Call_compute_snow_transport
    \/ compute_snow_drift_plotly
    \/ compute_monthly_and_yearly_Qt_plotly
    \/ Return

Spec == Init /\ [][Next]_vars

-----------------------------------------------------------------------------
(* A caller that makes the same call twice on its table *)

\* the tables of the caller
RepeatTables == { t \in Tables : Len(t) < MaxRows }

\* what a call of compute_yearly_results leaves; the table has its season
\* column, as the wrapper passes it
yearly_results_result(table, T, F, theta) ==
    LET yearly == compute_yearly_results(table, T, F, theta)
    IN [outcome |-> IF IsException(yearly) THEN yearly.exception ELSE "ok",
        df |-> <<>>, df_yearly |-> <<>>, df_monthly |-> <<>>, fig_rose |-> <<>>,
        ret |-> IF IsException(yearly) THEN NoResult ELSE yearly,
        heap |-> yearly_frames(<<table>>, 1, SortedSeasons(table))]

First_compute_yearly_results ==
    /\ op = "idle"
    /\ \E t \in RepeatTables, p \in Parameters :
         /\ args' = [df |-> WithSeason(t), T |-> p[1], F |-> p[2], theta |-> p[3]]
         /\ Returns(yearly_results_result(WithSeason(t), p[1], p[2], p[3]))
    /\ op' = "compute_yearly_results"
    /\ UNCHANGED <<first, session_state, query_params, clicked>>

First_compute_snow_drift_plotly == Call_compute_snow_drift_plotly(RepeatTables)

First_compute_monthly_and_yearly_Qt_plotly ==
    Call_compute_monthly_and_yearly_Qt_plotly(RepeatTables)

\* the table the caller passed
CallerTable(a) == IF "df_raw" \in DOMAIN a THEN a.df_raw ELSE a.df

\* the same call again, with the same arguments and the caller's table as
\* the first call left it
Again ==
    /\ op \in {"compute_yearly_results", "compute_snow_drift_plotly",
               "compute_monthly_and_yearly_Qt_plotly"}
    /\ first.calls = 0
    /\ first' = [calls |-> 1, outcome |-> outcome, ret |-> ret, df_yearly |-> df_yearly,
                 df_monthly |-> df_monthly, fig_rose |-> fig_rose,
                 passed |-> CallerTable(args), kept |-> heap[1]]
    /\ IF op = "compute_yearly_results"
       THEN /\ args' = [args EXCEPT !.df = heap[1]]
            /\ Returns(yearly_results_result(heap[1], args.T, args.F, args.theta))
       ELSE /\ args' = [args EXCEPT !.df_raw = heap[1]]
            /\ IF op = "compute_snow_drift_plotly"
               THEN Returns(snow_drift_result(heap[1], args.start_year, args.end_year,
                                              args.T, args.F, args.theta))
               ELSE Returns(monthly_and_yearly_Qt_result(heap[1], args.start_year,
                                                         args.end_year,
                                                         args.T, args.F, args.theta))
    /\ UNCHANGED <<op, session_state, query_params, clicked>>

NextRepeat ==
    \/ First_compute_yearly_results
    \/ First_compute_snow_drift_plotly
    \/ First_compute_monthly_and_yearly_Qt_plotly
    \/ Again
    \/ Return

SpecRepeat == Init /\ [][NextRepeat]_vars

-----------------------------------------------------------------------------


(* A caller that calls the two wrappers on the same observations *)

Both_compute_snow_drift_plotly == Call_compute_snow_drift_plotly(RepeatTables)

\* the second wrapper, with the arguments of the first and the caller's
\* table as the first call left it
Both_compute_monthly_and_yearly_Qt_plotly ==
    /\ op = "compute_snow_drift_plotly"
    /\ first.calls = 0
    /\ first' = [calls |-> 1, outcome |-> outcome, ret |-> ret, df_yearly |-> df_yearly,
                 fig_rose |-> fig_rose, passed |-> args.df_raw, kept |-> heap[1]]
    /\ args' = [args EXCEPT !.df_raw = heap[1]]
    /\ Returns(monthly_and_yearly_Qt_result(heap[1], args.start_year, args.end_year,
                                            args.T, args.F, args.theta))
    /\ op' = "compute_monthly_and_yearly_Qt_plotly"
    /\ UNCHANGED <<session_state, query_params, clicked>>

NextBoth ==
    \/ Both_compute_snow_drift_plotly
    \/ Both_compute_monthly_and_yearly_Qt_plotly
    \/ Return

SpecBoth == Init /\ [][NextBoth]_vars

-----------------------------------------------------------------------------

(* The sidebar of the pages: helpers/sidebar.py *)

AREAS == <<"NO1", "NO2", "NO3", "NO4", "NO5">>

PROD_GROUPS == <<"hydro", "wind", "solar", "thermal", "other">>

CONS_GROUPS == <<"cabin", "household", "primary", "secondary", "tertiary">>

ENERGY_TYPES == <<"production", "consumption">>

DefaultYear == 2021

\* d[k] = v
Put(d, k, v) == (k :> v) @@ d

\* d.setdefault(k, v)
setdefault(d, k, v) == IF k \in DOMAIN d THEN d ELSE d @@ (k :> v)

\* g in list
InList(g, list) == \E i \in 1..Len(list) : list[i] = g

\* sep.join(list): the string as the sequence of its pieces, a group name
\* or a separator each; "" is the empty sequence
RECURSIVE join(_, _)
join(sep, list) ==
    IF list = <<>> THEN <<>>
    ELSE IF Len(list) = 1 THEN <<list[1]>>
    ELSE <<list[1], sep>> \o join(sep, Tail(list))

\* string.split(sep): the fields between the separators; a field free of
\* separators is a group name or the empty string, and "".split(sep) is [""]
RECURSIVE split(_, _)
split(string, sep) ==
    IF \A i \in 1..Len(string) : string[i] # sep
    THEN <<IF string = <<>> THEN "" ELSE string[1]>>
    ELSE LET i == CHOOSE j \in 1..Len(string) :
                     string[j] = sep /\ \A k \in 1..(j - 1) : string[k] # sep
         IN <<IF i = 1 THEN "" ELSE string[1]>>
            \o split(SubSeq(string, i + 1, Len(string)), sep)

\* PROD_GROUPS if energy_type == "production" else CONS_GROUPS
Allowed(energy_type) == IF energy_type = "production" THEN PROD_GROUPS ELSE CONS_GROUPS

\* the comprehension without the fallback to allowed[:]
Cleaned_no_fallback(raw, allowed) == SelectSeq(raw, LAMBDA g : InList(g, allowed))

\* [g for g in raw if g in allowed], and allowed[:] when that is empty
Cleaned(raw, allowed) ==
    LET cleaned == SelectSeq(raw, LAMBDA g : InList(g, allowed))
    IN IF cleaned = <<>> THEN allowed ELSE cleaned

WidgetKeys == {"_price_area_widget", "_energy_type_widget", "_groups_widget", "_year_widget"}

_init_globals(ss) ==
    LET s1 == setdefault(ss, "price_area", "NO1")
        s2 == setdefault(s1, "energy_type", "production")
        s3 == setdefault(s2, "selected_groups", PROD_GROUPS)
        s4 == setdefault(s3, "year", DefaultYear)
        s5 == setdefault(s4, "_price_area_widget", s4["price_area"])
        s6 == setdefault(s5, "_energy_type_widget", s5["energy_type"])
        s7 == setdefault(s6, "_groups_widget", s6["selected_groups"])
    IN setdefault(s7, "_year_widget", s7["year"])

\* the callback without the write of cleaned to the mirror of the pills
_sync_all_stale_mirror(ss, qp) ==
    IF \E k \in WidgetKeys : k \notin DOMAIN ss
    THEN [session_state |-> ss, query_params |-> qp]
    ELSE LET s1 == Put(ss, "price_area", ss["_price_area_widget"])
             s2 == Put(s1, "energy_type", s1["_energy_type_widget"])
             s3 == Put(s2, "year", s2["_year_widget"])
             cleaned == Cleaned(s3["_groups_widget"], Allowed(s3["energy_type"]))
             s4 == Put(s3, "selected_groups", cleaned)
             q1 == Put(qp, "area", s4["price_area"])
             q2 == Put(q1, "type", s4["energy_type"])
             q3 == Put(q2, "year", ToString(s4["year"]))
         IN [session_state |-> s4, query_params |-> Put(q3, "groups", join(",", cleaned))]

\* the callback of the widgets; the value of the pills widget is a list
_sync_all(ss, qp) ==
    IF \E k \in WidgetKeys : k \notin DOMAIN ss
    THEN [session_state |-> ss, query_params |-> qp]
    ELSE LET s1 == Put(ss, "price_area", ss["_price_area_widget"])
             s2 == Put(s1, "energy_type", s1["_energy_type_widget"])
             s3 == Put(s2, "year", s2["_year_widget"])
             cleaned == Cleaned(s3["_groups_widget"], Allowed(s3["energy_type"]))
             s4 == Put(s3, "selected_groups", cleaned)
             s5 == Put(s4, "_groups_widget", cleaned)
             q1 == Put(qp, "area", s5["price_area"])
             q2 == Put(q1, "type", s5["energy_type"])
             q3 == Put(q2, "year", ToString(s5["year"]))
         IN [session_state |-> s5, query_params |-> Put(q3, "groups", join(",", cleaned))]

\* the session state it leaves and the validity it returns
global_sidebar(ss) ==
    LET s0 == _init_globals(ss)
        s1 == Put(s0, "_price_area_widget", s0["price_area"])
        s2 == Put(s1, "_energy_type_widget", s1["energy_type"])
        s3 == Put(s2, "_year_widget", s2["year"])
        s4 == Put(s3, "_groups_widget",
                  Cleaned(s3["selected_groups"], Allowed(s3["energy_type"])))
    IN [session_state |-> s4, ret |-> Len(s4["selected_groups"]) > 0]

-----------------------------------------------------------------------------

(* The pages and the events of a browser session *)

MaxClicks == 1

ClickLogLimit == 20

\* the lists a user makes of the pills: none, the first, the second, both;
\* pills come back in the order of the options
Selections(options) ==
    { <<>>, <<options[1]>>, <<options[2]>>, <<options[1], options[2]>> }

\* the price areas and the years a user picks
PickedAreas == {"NO1", "NO2"}

PickedYears == {2021, 2022}

\* the values a user can give the widget with the key
WidgetValues(key, ss) ==
    IF key = "_energy_type_widget" THEN { ENERGY_TYPES[i] : i \in 1..Len(ENERGY_TYPES) }
    ELSE IF key = "_price_area_widget" THEN PickedAreas
    ELSE IF key = "_year_widget" THEN PickedYears
    ELSE Selections(Allowed(ss["energy_type"]))

\* the widgets with on_change=_sync_all a page shows
WidgetsOf(page) ==
    IF page = "Energy_Explorer"
    THEN {"_energy_type_widget", "_price_area_widget", "_groups_widget"}
    ELSE WidgetKeys

\* the "ElSpotOmr" names of the polygons of the GeoJSON file, in the order of AREAS
ElSpotOmr == <<"NO 1", "NO 2", "NO 3", "NO 4", "NO 5">>

\* map_data["last_clicked"] of a run without a click; a click is <<point>>
NoClick == <<>>

\* the places of a click: in the polygon of NO 2, and in no polygon
Points == { [lat |-> 58, lng |-> 7, feature |-> "NO 2"],
            [lat |-> 57, lng |-> 3, feature |-> None] }

\* feature["properties"][FEATURE_KEY].replace("NO ", "NO") of the polygon
\* that contains the point, None when there is none
clicked_area_of(point) ==
    IF point.feature = None THEN None
    ELSE AREAS[CHOOSE i \in 1..Len(ElSpotOmr) : ElSpotOmr[i] = point.feature]

\* the entry of the click log
LogEntry(point, groups) ==
    [Latitude |-> point.lat, Longitude |-> point.lng,
     Clicked_Area |-> IF clicked_area_of(point) = None THEN "Outside Norway"
                      ELSE clicked_area_of(point),
     Groups |-> join(", ", groups),
     Mean_Value |-> IF clicked_area_of(point) = None THEN None ELSE "mean_value",
     Start |-> "date_start", End |-> "date_end"]


\* the click handler with the new entry put last and the last 20 kept
handle_click_append(ss, point, groups) ==
    LET s1  == Put(ss, "active_popup", <<point.lat, point.lng>>)
        s2  == setdefault(s1, "click_log", <<>>)
        log == Append(s2["click_log"], LogEntry(point, groups))
        s3  == Put(s2, "click_log",
                   SubSeq(log, Len(log) + 1 - Min(Len(log), ClickLogLimit), Len(log)))
    IN IF clicked_area_of(point) # None THEN Put(s3, "price_area", clicked_area_of(point))
       ELSE s3


\* the click handler without its "if clicked_area:"
handle_click_unconditional(ss, point, groups) ==
    LET s1  == Put(ss, "active_popup", <<point.lat, point.lng>>)
        s2  == setdefault(s1, "click_log", <<>>)
        log == <<LogEntry(point, groups)>> \o s2["click_log"]
        s3  == Put(s2, "click_log", SubSeq(log, 1, Min(Len(log), ClickLogLimit)))
    IN Put(s3, "price_area", clicked_area_of(point))

\* the click handler of the map: lines 237-274 up to st.rerun()
handle_click(ss, point, groups) ==
    LET s1  == Put(ss, "active_popup", <<point.lat, point.lng>>)
        s2  == setdefault(s1, "click_log", <<>>)
        log == <<LogEntry(point, groups)>> \o s2["click_log"]
        s3  == Put(s2, "click_log", SubSeq(log, 1, Min(Len(log), ClickLogLimit)))
    IN IF clicked_area_of(point) # None THEN Put(s3, "price_area", clicked_area_of(point))
       ELSE s3

\* a handler of the session ends
Ends(page, how, event, ss, qp, r) ==
    /\ op' = page
    /\ outcome' = how
    /\ args' = event
    /\ session_state' = ss
    /\ query_params' = qp
    /\ ret' = r
    /\ UNCHANGED <<df, df_yearly, df_monthly, fig_rose, heap, first>>

\* a page can run when no rerun is pending, or it is the page to rerun
CanRun(page) == outcome \in {"_sync_all", "rerun"} => op = page

\* a run of the Map Explorer, with the click of the map if there is one: the
\* user clicks one of the points of the map that the run before has shown,
\* and at most max_clicks times in a session
Run_Map_Explorer(points, max_clicks) ==
    /\ CanRun("Map_Explorer")
    /\ \E click \in {NoClick} \cup { <<p>> : p \in points } :
         LET g == global_sidebar(session_state)
         IN /\ click # NoClick =>
                  op = "Map_Explorer" /\ outcome = "run" /\ Len(clicked) < max_clicks
            /\ IF ~g.ret
               THEN /\ Ends("Map_Explorer", "stop", [last_clicked |-> NoClick],
                            g.session_state, query_params, g.ret)
                    /\ UNCHANGED clicked
               ELSE IF click = NoClick
               THEN /\ Ends("Map_Explorer", "run", [last_clicked |-> NoClick],
                            g.session_state, query_params, g.ret)
                    /\ UNCHANGED clicked
               ELSE /\ Ends("Map_Explorer", "rerun", [last_clicked |-> click],
                            handle_click(g.session_state, click[1],
                                         g.session_state["selected_groups"]),
                            query_params, g.ret)
                    /\ clicked' = Append(clicked,
                                         [point |-> click[1],
                                          groups |-> g.session_state["selected_groups"]])

Map_Explorer == Run_Map_Explorer(Points, MaxClicks)

\* the URL sync of the Energy Explorer: area, type and groups
energy_url_sync(ss, qp) ==
    LET s1 == IF "area" \in DOMAIN qp THEN Put(ss, "price_area", qp["area"]) ELSE ss
        s2 == IF "type" \in DOMAIN qp THEN Put(s1, "energy_type", qp["type"]) ELSE s1
    IN IF "groups" \in DOMAIN qp
       THEN Put(s2, "selected_groups", split(qp["groups"], ","))
       ELSE s2

\* the widget state of the Energy Explorer and its group normalisation
energy_widgets(ss) ==
    LET allowed_groups == Allowed(ss["energy_type"])
        s1 == setdefault(ss, "_price_area_widget", ss["price_area"])
        s2 == setdefault(s1, "_energy_type_widget", s1["energy_type"])
        s3 == setdefault(s2, "_groups_widget", s2["selected_groups"])
        valid_groups == Cleaned(s3["_groups_widget"], allowed_groups)
    IN Put(Put(s3, "_groups_widget", valid_groups), "selected_groups", valid_groups)

\* a run of the Energy Explorer; the consumption column is in the data or not
Energy_Explorer ==
    /\ CanRun("Energy_Explorer")
    /\ \E consumption_loaded \in BOOLEAN :
         LET s1 == _init_globals(energy_url_sync(session_state, query_params))
         IN IF s1["energy_type"] = "consumption" /\ ~consumption_loaded
            THEN Ends("Energy_Explorer", "stop", [consumption_loaded |-> consumption_loaded],
                      s1, query_params, NoResult)
            ELSE Ends("Energy_Explorer", "run", [consumption_loaded |-> consumption_loaded],
                      energy_widgets(s1), query_params, NoResult)
    /\ UNCHANGED clicked

\* the user changes a widget the page shows; its callback _sync_all runs
Change_widget ==
    /\ op \in {"Map_Explorer", "Energy_Explorer"}
    /\ outcome = "run" \/ (outcome = "stop" /\ op # "Energy_Explorer")
    /\ \E key \in WidgetsOf(op) :
         \E value \in WidgetValues(key, session_state) :
            LET r == _sync_all(Put(session_state, key, value), query_params)
            IN /\ value # session_state[key]
               /\ Ends(op, "_sync_all",
                       [key |-> key, value |-> value],
                       r.session_state, r.query_params, ret)
    /\ UNCHANGED clicked


\* d without the keys
Drop(d, keys) == [k \in DOMAIN d \ keys |-> d[k]]

NextSidebar ==
    \/ Map_Explorer
    \/ Energy_Explorer
    \/ Change_widget

SpecSidebar == Init /\ [][NextSidebar]_vars

-----------------------------------------------------------------------------



(* A session of many map clicks *)

MaxSessionClicks == 22

MaxAreaClicks == 2

\* the clicks so far that hit a price area
AreaClicks == Cardinality({ i \in 1..Len(clicked) : clicked[i].point.feature # None })

\* the user clicks at sea, and at most MaxAreaClicks times on a price area
ClickPoints ==
    IF AreaClicks < MaxAreaClicks THEN Points ELSE { p \in Points : p.feature = None }

Click_Map_Explorer == Run_Map_Explorer(ClickPoints, MaxSessionClicks)

NextClicks == Click_Map_Explorer

SpecClicks == Init /\ [][NextClicks]_vars

-----------------------------------------------------------------------------

(* The callback of the widgets on its own *)

\* a page shows the sidebar, the user changes a widget, and the callback
\* runs on the session state it finds: Streamlit may have dropped the keys
\* of widgets that the page run before did not show
Call__sync_all ==
    /\ op \in {"idle", "_sync_all"}
    /\ \E key \in WidgetKeys, missing \in SUBSET WidgetKeys :
         LET shown == global_sidebar(session_state).session_state
         IN \E value \in WidgetValues(key, shown) :
               LET found == Drop(Put(shown, key, value), missing)
                   r     == _sync_all(found, query_params)
               IN /\ op' = "_sync_all"
                  /\ outcome' = IF missing = {} THEN "synced" ELSE "returned"
                  /\ args' = [session_state |-> found, query_params |-> query_params]
                  /\ session_state' = r.session_state
                  /\ query_params' = r.query_params
                  /\ UNCHANGED <<df, df_yearly, df_monthly, fig_rose, ret, heap, first, clicked>>

NextSync == Call__sync_all

SpecSync == Init /\ [][NextSync]_vars

-----------------------------------------------------------------------------


(* The analyses of the page 06_newB.py, rerun on demand *)

\* the two analyses of the page, in the order of its tabs
AnalysisKeys == <<"SPC", "LOF">>

\* f"last_params_{key}"
last_params_(key) == "last_params_" \o key

\* the parameters of an analysis: one value stands for the tuple of its
\* sliders; "default" is what the sliders show on the first load
ParamValues == {"default", "changed", "changed again"}

DefaultParams == [k \in {"SPC", "LOF"} |-> "default"]

\* the helper that records the parameters on a change without the button
run_analysis_always(ss, key, current_params, button) ==
    [session_state |-> Put(ss, last_params_(key), current_params), ran |-> TRUE]

\* the session state it leaves and whether analysis_func ran; button is the
\* value of st.button in this run, read only where the code calls it
run_analysis_if_changed(ss, key, current_params, button) ==
    IF last_params_(key) \notin DOMAIN ss
    THEN [session_state |-> Put(ss, last_params_(key), current_params), ran |-> TRUE]
    ELSE IF current_params # ss[last_params_(key)]
    THEN IF button
         THEN [session_state |-> Put(ss, last_params_(key), current_params), ran |-> TRUE]
         ELSE [session_state |-> ss, ran |-> FALSE]
    ELSE [session_state |-> ss, ran |-> TRUE]

\* the URL sync of the page: area and groups
newB_url_sync(ss, qp) ==
    LET s1 == IF "area" \in DOMAIN qp THEN Put(ss, "price_area", qp["area"]) ELSE ss
    IN IF "groups" \in DOMAIN qp
       THEN Put(s1, "production_group", split(qp["groups"], ","))
       ELSE s1

\* the button of the analysis was on the page after the last run
ButtonShown(key) ==
    /\ op = "newB"
    /\ args.params[key] # session_state[last_params_(key)]

\* what makes the page run: its load, a slider of one analysis moved, or the
\* button of one analysis pressed
Events ==
    IF op = "idle" THEN { [kind |-> "load", key |-> None, params |-> DefaultParams] }
    ELSE { [kind |-> "rerun", key |-> None, params |-> args.params] }
         \cup { [kind |-> "slider", key |-> k, params |-> [args.params EXCEPT ![k] = v]] :
                   k \in {"SPC", "LOF"}, v \in ParamValues }
         \cup { [kind |-> "button", key |-> k, params |-> args.params] :
                   k \in { j \in {"SPC", "LOF"} : ButtonShown(j) } }

\* a run of the page: the sidebar, then the two analyses in turn
newB ==
    /\ op \in {"idle", "newB"}
    /\ \E event \in Events :
         LET s0  == global_sidebar(newB_url_sync(session_state, query_params)).session_state
             spc == run_analysis_if_changed(s0, AnalysisKeys[1], event.params[AnalysisKeys[1]],
                       event.kind = "button" /\ event.key = AnalysisKeys[1])
             lof == run_analysis_if_changed(spc.session_state, AnalysisKeys[2],
                       event.params[AnalysisKeys[2]],
                       event.kind = "button" /\ event.key = AnalysisKeys[2])
         IN /\ event.kind = "slider" => event.params # args.params
            /\ op' = "newB"
            /\ outcome' = "run"
            /\ args' = [kind |-> event.kind, key |-> event.key, params |-> event.params,
                        found |-> session_state]
            /\ session_state' = lof.session_state
            /\ ret' = [k \in {"SPC", "LOF"} |-> IF k = AnalysisKeys[1] THEN spc.ran ELSE lof.ran]
            /\ UNCHANGED <<df, df_yearly, df_monthly, fig_rose, heap, first, query_params, clicked>>

NextAnalysis == newB

SpecAnalysis == Init /\ [][NextAnalysis]_vars

-----------------------------------------------------------------------------

(* The claims *)

Half == <<1, 2>>

AllZero(ws) == \A i \in 1..Len(ws) : ws[i] = 0

\* a result r of compute_snow_transport(T, _, theta, Swe, ws) follows the
\* regime switch
RegimeSwitch(r, T, theta, Swe, ws) ==
    /\ r.Qupot = compute_Qupot(ws, DefaultDt)
    /\ r.Qspot = RatMul(Half, Rat(T * Swe))
    /\ r.Srwe = RatMul(theta, Rat(Swe))
    /\ IF RatLess(r.Qspot, r.Qupot)
       THEN r.Control = "Snowfall controlled"
            /\ r.Qinf = RatMul(Half, RatMul(Rat(T), r.Srwe))
       ELSE r.Control = "Wind controlled" /\ r.Qinf = r.Qupot

\* C1: compute_snow_transport reports "Snowfall controlled" with
\* Qinf = 0.5*T*Srwe exactly when Qupot > Qspot, and otherwise (Qupot = Qspot
\* included) "Wind controlled" with Qinf = Qupot.
C1_RegimeSwitch ==
    (op = "compute_snow_transport" /\ outcome = "ok")
        => RegimeSwitch(ret, args.T, args.theta, args.Swe, args.hourly_wind_speeds)

C1_Witness ==
    /\ op = "compute_snow_transport"
    /\ outcome = "ok"
    /\ ret.Qupot = ret.Qspot
    /\ args.hourly_wind_speeds # <<>>
    /\ ret.Control = "Wind controlled"

\* C2 as stated: with an all-zero wind series and Qspot > 0 the regime is
\* "Snowfall controlled" and Qinf = 0.5*T*theta*Swe.
C2_SnowfallOnCalm ==
    (/\ op = "compute_snow_transport"
     /\ outcome = "ok"
     /\ AllZero(args.hourly_wind_speeds)
     /\ RatLess(RatZero, ret.Qspot))
        => /\ ret.Control = "Snowfall controlled"
           /\ ret.Qinf = RatMul(Half, RatMul(Rat(args.T), RatMul(args.theta, Rat(args.Swe))))

\* C2 amended: with an all-zero wind series and Qspot > 0 the regime is
\* "Wind controlled" and Qinf = Qupot = 0.
C2_WindOnCalm ==
    (/\ op = "compute_snow_transport"
     /\ outcome = "ok"
     /\ AllZero(args.hourly_wind_speeds)
     /\ RatLess(RatZero, ret.Qspot))
        => /\ ret.Control = "Wind controlled"
           /\ ret.Qinf = RatZero
           /\ ret.Qupot = RatZero

C2_Witness ==
    /\ op = "compute_snow_transport"
    /\ outcome = "ok"
    /\ args.hourly_wind_speeds = <<0, 0>>
    /\ args.Swe = 5
    /\ ret.Qspot = Rat(7500)
    /\ ret.Control = "Wind controlled"

\* the first instant of season s
JulyFirst(s) == <<s, 7, 1, 0, 0, 0>>

\* C3: assign_season gives the one season year s with
\* July 1 of s <= timestamp < July 1 of s + 1, which is the calendar year from
\* July on and the year before until June; 2021-06-30 23:59:00 is in season
\* 2020 and 2021-07-01 00:00:00 in season 2021.
C3_SeasonOfTimestamp ==
    (op = "assign_season") =>
        /\ TimeLeq(JulyFirst(ret), args.dt) /\ LexLess(args.dt, JulyFirst(ret + 1))
        /\ \A s \in (FirstYear - 2)..(LastYear + 2) :
             (TimeLeq(JulyFirst(s), args.dt) /\ LexLess(args.dt, JulyFirst(s + 1))) => s = ret
        /\ ret = (IF args.dt[2] >= 7 THEN args.dt[1] ELSE args.dt[1] - 1)
        /\ (args.dt = <<2021, 6, 30, 23, 59, 0>> => ret = 2020)
        /\ (args.dt = <<2021, 7, 1, 0, 0, 0>> => ret = 2021)

C3_Witness ==
    /\ op = "assign_season"
    /\ args.dt = <<2021, 6, 30, 23, 59, 0>>
    /\ ret = 2020

\* July 1 of s 00:00:00 <= t <= June 30 of s + 1 23:59:00
InSeasonWindow(t, s) ==
    TimeLeq(<<s, 7, 1, 0, 0, 0>>, t) /\ TimeLeq(t, <<s + 1, 6, 30, 23, 59, 0>>)

WindowRows(rows, s) == SelectSeq(rows, LAMBDA r : InSeasonWindow(r.time, s))

\* the wind transport potential of the rows
QupotOfRows(rows) ==
    SumRat([i \in 1..Len(rows) |-> Weight(rows[i].wind_speed_10m, DefaultDt)])

\* the precipitation of the rows colder than 1 degree
SnowOfRows(rows) ==
    SumInt([i \in 1..Len(rows) |->
               IF rows[i].temperature_2m < 1 THEN rows[i].precipitation ELSE 0])

AfterJune30Minute(t) == t[2] = 6 /\ t[3] = 30 /\ LexLess(<<23, 59, 0>>, <<t[4], t[5], t[6]>>)

\* C4: the yearly result of season s aggregates exactly the observations
\* with July 1 of s 00:00:00 <= time <= June 30 of s + 1 23:59:00, and an
\* observation later than 23:59:00 on June 30 is in no season's result: the
\* wind potentials of all the yearly rows add up to that of the rows in a
\* window.
C4_SeasonWindow ==
    /\ (op = "compute_snow_drift_plotly" /\ outcome = "ok") =>
          /\ \A i \in 1..Len(df_yearly) :
                df_yearly[i].Qupot = QupotOfRows(WindowRows(df, df_yearly[i].season))
          /\ SumRat([i \in 1..Len(df_yearly) |-> df_yearly[i].Qupot])
                = QupotOfRows(SelectSeq(df, LAMBDA r : ~AfterJune30Minute(r.time)))
    /\ (op = "compute_monthly_and_yearly_Qt_plotly" /\ outcome = "ok") =>
          \A i \in 1..Len(df_yearly) :
             LET w == WindowRows(df, df_yearly[i].season)
             IN df_yearly[i].Qt_yearly
                  = compute_snow_transport(args.T, args.F, args.theta, SnowOfRows(w),
                                           Column(w, "wind_speed_10m"), DefaultDt).Qt

\* a storm half a minute after the window, and a row of that season in it
C4_Witness ==
    /\ op = "compute_snow_drift_plotly"
    /\ outcome = "ok"
    /\ \E i \in 1..Len(df), j \in 1..Len(df), k \in 1..Len(df_yearly) :
          /\ AfterJune30Minute(df[i].time)
          /\ df[i].wind_speed_10m = 32
          /\ df[j].time = <<df[i].time[1], 6, 30, 23, 59, 0>>
          /\ df_yearly[k].season = df[i].season

\* the seasons with at least one observation of the table in their window
SeasonsWithData(rows) ==
    { s \in (FirstYear - 2)..(LastYear + 2) : WindowRows(rows, s) # <<>> }

\* C5: the yearly table has one row for each season with an observation in
\* its window, none for another season, in strictly ascending season order.
C5_OneRowPerSeason ==
    /\ (op = "compute_snow_drift_plotly" /\ outcome = "ok") =>
          /\ { df_yearly[i].season : i \in 1..Len(df_yearly) } = SeasonsWithData(df)
          /\ Len(df_yearly) = Cardinality(SeasonsWithData(df))
          /\ \A i \in 1..(Len(df_yearly) - 1) : df_yearly[i].season < df_yearly[i + 1].season
    /\ (op = "compute_snow_drift_plotly" /\ outcome = "KeyError") => SeasonsWithData(df) = {}

\* two seasons with data, and a third row
C5_Witness ==
    /\ op = "compute_snow_drift_plotly"
    /\ outcome = "ok"
    /\ Len(df) = 3
    /\ Len(df_yearly) = 2
    /\ df_yearly[1].season < df_yearly[2].season

C7_SectorsSumToQupot ==
    (op = "compute_sector_transport"
        /\ Len(args.hourly_wind_speeds) = Len(args.hourly_wind_dirs))
        => SumRat(ret) = compute_Qupot(args.hourly_wind_speeds, DefaultDt)

\* two samples with wind in one sector
C7_Witness ==
    /\ op = "compute_sector_transport"
    /\ Len(args.hourly_wind_speeds) = 2
    /\ Len(args.hourly_wind_dirs) = 2
    /\ args.hourly_wind_speeds[1] > 0
    /\ args.hourly_wind_speeds[2] > 0
    /\ args.hourly_wind_dirs[1] # args.hourly_wind_dirs[2]
    /\ \E k \in 1..16 : ret[k] = compute_Qupot(args.hourly_wind_speeds, DefaultDt)

\* the 16 compass points, clockwise from North
Compass == [c \in {2250 * k : k \in 0..15} |->
    CASE c = 0     -> "N"  [] c = 2250  -> "NNE" [] c = 4500  -> "NE" [] c = 6750  -> "ENE"
      [] c = 9000  -> "E"  [] c = 11250 -> "ESE" [] c = 13500 -> "SE" [] c = 15750 -> "SSE"
      [] c = 18000 -> "S"  [] c = 20250 -> "SSW" [] c = 22500 -> "SW" [] c = 24750 -> "WSW"
      [] c = 27000 -> "W"  [] c = 29250 -> "WNW" [] c = 31500 -> "NW" [] c = 33750 -> "NNW"]

\* direction d is within 11.25 degrees of the centre 22.5 k, the lower end included
InSector(d, k) ==
    LET m == d % 36000
    IN IF k = 0 THEN m >= 34875 \/ m < 1125
       ELSE 2250 * k - 1125 <= m /\ m < 2250 * k + 1125

\* the rows of season s
RowsOfSeason(rows, s) == SelectSeq(rows, LAMBDA r : r.season = s)

\* the mean over the seasons of the table of the transport from sector k
MeanFromSector(rows, k) ==
    LET seasons == SetToSortedSeq({ rows[i].season : i \in 1..Len(rows) })
    IN RatDivInt(
         SumRat([i \in 1..Len(seasons) |->
            QupotOfRows(SelectSeq(RowsOfSeason(rows, seasons[i]),
                                  LAMBDA r : InSector(r.wind_direction_10m, k)))]),
         Len(seasons))

\* C8: entry k of the directional vector holds the transport from the
\* directions in [22.5 k - 11.25, 22.5 k + 11.25), entry 0 being centred on
\* North, and the wind rose labels entry k with the compass point at 22.5 k.
C8_SectorOrder ==
    /\ (op = "compute_sector_transport"
          /\ Len(args.hourly_wind_speeds) = Len(args.hourly_wind_dirs)) =>
          \A k \in 0..15 :
             ret[k + 1] =
                SumRat([j \in 1..Len(args.hourly_wind_speeds) |->
                   IF InSector(args.hourly_wind_dirs[j], k)
                   THEN Weight(args.hourly_wind_speeds[j], DefaultDt) ELSE RatZero])
    /\ (op = "compute_snow_drift_plotly" /\ outcome = "ok") =>
          \A k \in 0..15 :
             /\ fig_rose[k + 1].theta = Compass[2250 * k]
             /\ fig_rose[k + 1].r = RatDivInt(MeanFromSector(df, k), 1000)

\* a storm from 348.75 degrees shows in the bar labelled N
C8_Witness ==
    /\ op = "compute_snow_drift_plotly"
    /\ outcome = "ok"
    /\ \E i \in 1..Len(df) : df[i].wind_direction_10m = 34875 /\ df[i].wind_speed_10m = 32
    /\ fig_rose[1].theta = "N"
    /\ RatLess(RatZero, fig_rose[1].r)

\* C9: the snow-water-equivalent of a bucket is the precipitation of its
\* rows colder than 1 degree; a row at 1 degree or warmer adds nothing.
C9_SnowBelowOneDegree ==
    /\ (op = "compute_snow_drift_plotly" /\ outcome = "ok") =>
          \A i \in 1..Len(df_yearly) :
             LET w == WindowRows(df, df_yearly[i].season)
             IN /\ df_yearly[i].Srwe = RatMul(args.theta, Rat(SnowOfRows(w)))
                /\ df_yearly[i].Qspot = RatMul(Half, Rat(args.T * SnowOfRows(w)))
    /\ (op = "compute_monthly_and_yearly_Qt_plotly" /\ outcome = "ok") =>
          \A i \in 1..Len(df_monthly) :
             LET g == SelectSeq(df, LAMBDA r : r.season = df_monthly[i].season
                                              /\ MonthStart(r.time) = df_monthly[i].month)
             IN df_monthly[i].Qt_monthly
                  = compute_snow_transport(args.T, args.F, args.theta, SnowOfRows(g),
                                           Column(g, "wind_speed_10m"), DefaultDt).Qt

\* a season with precipitation at exactly 1 degree and below it
C9_Witness ==
    /\ op = "compute_snow_drift_plotly"
    /\ outcome = "ok"
    /\ \E k \in 1..Len(df_yearly), i \in 1..Len(df), j \in 1..Len(df) :
          /\ InSeasonWindow(df[i].time, df_yearly[k].season)
          /\ InSeasonWindow(df[j].time, df_yearly[k].season)
          /\ df[i].temperature_2m = 1 /\ df[i].precipitation > 0
          /\ df[j].temperature_2m < 1 /\ df[j].precipitation > 0
          /\ df_yearly[k].Srwe = RatMul(args.theta, Rat(df[j].precipitation))

\* C10: with T > 0, Swe >= 0, 0 <= theta <= 1 and non-negative wind speeds,
\* Qinf is at most Qupot and at most Qspot.
C10_QinfBounded ==
    /\ (op = "compute_snow_transport" /\ outcome = "ok") =>
          RatLeq(ret.Qinf, ret.Qupot) /\ RatLeq(ret.Qinf, ret.Qspot)
    /\ (op = "compute_snow_drift_plotly" /\ outcome = "ok") =>
          \A i \in 1..Len(df_yearly) :
             /\ RatLeq(df_yearly[i].Qinf, df_yearly[i].Qupot)
             /\ RatLeq(df_yearly[i].Qinf, df_yearly[i].Qspot)

\* snowfall controlled with theta = 1: Qinf reaches Qspot
C10_Witness ==
    /\ op = "compute_snow_transport"
    /\ outcome = "ok"
    /\ args.theta = <<1, 1>>
    /\ args.Swe > 0
    /\ ret.Control = "Snowfall controlled"
    /\ ret.Qinf = ret.Qspot
    /\ RatLess(ret.Qspot, ret.Qupot)

\* C11: for fixed F >= 0 and T > 0, Qt = Qinf * (1 - 0.14^(F/T)) does not
\* decrease when Qinf grows: of two results with the same F and T, the one
\* with the larger Qinf does not have the smaller Qt.
C11_QtMonotoneInQinf ==
    (op = "compute_snow_transport" /\ outcome = "ok" /\ args.T > 0 /\ args.F >= 0) =>
        \A theta \in Thetas, Swe \in SweValues, ws \in SeqsUpTo(WindSpeeds, MaxSamples) :
           LET r == compute_snow_transport(args.T, args.F, theta, Swe, ws, DefaultDt)
           IN /\ ret.Qt = RatMul(ret.Qinf, Saturation(args.F, args.T))
              /\ RatLeq(ret.Qinf, r.Qinf) => RatLeq(ret.Qt, r.Qt)

\* a positive Qinf with fetch, and a call with a larger Qinf and a larger Qt
C11_Witness ==
    /\ op = "compute_snow_transport"
    /\ outcome = "ok"
    /\ args.F > 0
    /\ RatLess(RatZero, ret.Qinf)
    /\ \E theta \in Thetas, Swe \in SweValues, ws \in SeqsUpTo(WindSpeeds, MaxSamples) :
          LET r == compute_snow_transport(args.T, args.F, theta, Swe, ws, DefaultDt)
          IN RatLess(ret.Qinf, r.Qinf) /\ RatLess(ret.Qt, r.Qt)

\* C12: compute_Qupot is exactly 0 for an empty and for an all-zero series,
\* and for non-negative wind speeds it does not decrease when one element
\* is raised and the others are kept.
C12_QupotZeroAndMonotone ==
    (op = "compute_Qupot") =>
        LET ws == args.hourly_wind_speeds
        IN /\ AllZero(ws) => ret = RatZero
           /\ \A i \in 1..Len(ws), u \in WindSpeeds :
                 u >= ws[i] => RatLeq(ret, compute_Qupot([ws EXCEPT ![i] = u], DefaultDt))
           /\ RatLeq(RatZero, ret)

\* a breeze and a calm hour: raising either sample gives more
C12_Witness ==
    /\ op = "compute_Qupot"
    /\ args.hourly_wind_speeds = <<1, 0>>
    /\ RatLess(RatZero, ret)
    /\ \A i \in 1..2 :
          RatLess(ret, compute_Qupot([args.hourly_wind_speeds EXCEPT ![i] = 32], DefaultDt))

\* C13: the average directional vector has 16 entries, and entry k is the
\* sum over the seasons present of the season's total from sector k divided
\* by the number of seasons, whatever the number of rows of a season.
C13_AverageOverSeasons ==
    (op = "compute_snow_drift_plotly" /\ outcome = "ok") =>
        LET seasons == SetToSortedSeq({ df[i].season : i \in 1..Len(df) })
            total(s, k) == QupotOfRows(SelectSeq(RowsOfSeason(df, s),
                                                 LAMBDA r : InSector(r.wind_direction_10m, k)))
        IN /\ Len(fig_rose) = 16
           /\ \A k \in 0..15 :
                 RatMul(RatMul(fig_rose[k + 1].r, Rat(1000)), Rat(Len(seasons)))
                    = SumRat([i \in 1..Len(seasons) |-> total(seasons[i], k)])

\* a season of one windy row and a season of two rows without wind from
\* that sector: the entry is half the windy row's transport, not a third
C13_Witness ==
    /\ op = "compute_snow_drift_plotly"
    /\ outcome = "ok"
    /\ Len(df) = 3
    /\ \E i \in 1..3, k \in 0..15 :
          /\ df[i].wind_speed_10m > 0
          /\ InSector(df[i].wind_direction_10m, k)
          /\ \A j \in (1..3) \ {i} :
                df[j].season # df[i].season /\ ~InSector(df[j].wind_direction_10m, k)
          /\ RatMul(fig_rose[k + 1].r, Rat(1000))
                = RatDivInt(Weight(df[i].wind_speed_10m, DefaultDt), 2)

\* the (season, month start) pairs with at least one row of the table
MonthPairs(rows) == { <<rows[i].season, MonthStart(rows[i].time)>> : i \in 1..Len(rows) }

\* C14 as stated: whenever compute_monthly_and_yearly_Qt_plotly returns, its
\* monthly table has exactly one result for each (season, month start) pair
\* with at least one observation in the season-filtered data and no result
\* for a month without observations.
C14_OneResultPerMonth ==
    (op = "compute_monthly_and_yearly_Qt_plotly" /\ outcome \in {"ok", "no_yearly", "no_data"}) =>
        /\ { <<df_monthly[i].season, df_monthly[i].month>> : i \in 1..Len(df_monthly) }
              = MonthPairs(df)
        /\ Len(df_monthly) = Cardinality(MonthPairs(df))

\* the seconds from July 1 00:00 of s to June 30 23:59 of s + 1
SeasonSpan(s) == TotalSeconds(<<s, 7, 1, 0, 0, 0>>, <<s + 1, 6, 30, 23, 59, 0>>)

\* C15 as stated: every per-season row of compute_snow_drift_plotly and of
\* compute_monthly_and_yearly_Qt_plotly has a bar width equal to the span of
\* its season from July 1 00:00 to June 30 23:59 of the next year (the width
\* column is in seconds, width_ms is 1000 times it).
C15_WidthIsSeasonSpan ==
    (op \in {"compute_snow_drift_plotly", "compute_monthly_and_yearly_Qt_plotly"}
        /\ outcome = "ok") =>
        \A i \in 1..Len(df_yearly) : df_yearly[i].width_s = SeasonSpan(df_yearly[i].season)

\* the rows of the caller's table whose season year is in start_year..end_year
RowsInRange(rows, start_year, end_year) ==
    SelectSeq(rows, LAMBDA r :
        LET s == IF r.time[2] >= 7 THEN r.time[1] ELSE r.time[1] - 1
        IN start_year <= s /\ s <= end_year)

\* C16: when no observation has its season in [start_year, end_year]
\* (start_year > end_year included), compute_snow_drift_plotly returns
\* (None, None, None) and compute_monthly_and_yearly_Qt_plotly an empty
\* figure with two empty tables; neither raises, whatever T, and no yearly,
\* monthly or directional result is computed.
C16_NoDataResult ==
    (op \in {"compute_snow_drift_plotly", "compute_monthly_and_yearly_Qt_plotly"}
        /\ RowsInRange(args.df_raw, args.start_year, args.end_year) = <<>>) =>
        /\ outcome = "no_data"
        /\ ret = IF op = "compute_snow_drift_plotly" THEN <<None, None, None>>
                 ELSE <<EmptyFigure, EmptyDataFrame, EmptyDataFrame>>
        /\ df_yearly = <<>> /\ df_monthly = <<>> /\ fig_rose = <<>>

\* observations in the table, start_year after end_year, and T = 0, on
\* which a per-season computation would divide by zero
C16_Witness ==
    /\ op = "compute_snow_drift_plotly"
    /\ args.df_raw # <<>>
    /\ args.start_year > args.end_year
    /\ args.T = 0
    /\ outcome = "no_data"
    /\ ret = <<None, None, None>>

\* C17 as stated: compute_sector_transport called with a wind-speed list and
\* a wind-direction list of different lengths fails; it raises an error and
\* returns no 16-element vector.
C17_MismatchFails ==
    (op = "compute_sector_transport"
        /\ Len(args.hourly_wind_speeds) # Len(args.hourly_wind_dirs)) =>
        /\ outcome # "ok"
        /\ ret = NoResult

\* C18: compute_snow_transport with T = 0 ends in the division by zero of
\* F / T and returns no result; with T > 0 and F >= 0 it returns a result
\* with the six fields Qupot, Qspot, Srwe, Qinf, Qt and Control.
C18_ZeroTRaises ==
    (op = "compute_snow_transport") =>
        /\ (args.T = 0) => (outcome = "ZeroDivisionError" /\ ret = ZeroDivisionError)
        /\ (args.T > 0 /\ args.F >= 0) =>
              /\ outcome = "ok"
              /\ DOMAIN ret = {"Qupot", "Qspot", "Srwe", "Qinf", "Qt", "Control"}

\* T = 0 with wind and snow, which would otherwise give a result
C18_Witness ==
    /\ op = "compute_snow_transport"
    /\ args.T = 0
    /\ args.Swe > 0
    /\ args.hourly_wind_speeds = <<32, 1>>
    /\ outcome = "ZeroDivisionError"

\* C19: a second call of compute_yearly_results, compute_snow_drift_plotly or
\* compute_monthly_and_yearly_Qt_plotly with the inputs of the first gives
\* the output of the first, and after every call the caller's table is the
\* table that was passed: no season, Swe_hourly or month_start column is
\* added to it, and nothing else is shared between the calls.
C19_RepeatableAndNoSideEffect ==
    /\ (op \in {"compute_yearly_results", "compute_snow_drift_plotly",
                "compute_monthly_and_yearly_Qt_plotly"}) =>
          /\ heap[1] = CallerTable(args)
          /\ \A i \in 1..Len(heap[1]) :
                DOMAIN heap[1][i] \cap {"Swe_hourly", "month_start"} = {}
          /\ (op # "compute_yearly_results") =>
                \A i \in 1..Len(heap[1]) : "season" \notin DOMAIN heap[1][i]
    /\ (first.calls = 1) =>
          /\ first.kept = first.passed
          /\ CallerTable(args) = first.passed
          /\ outcome = first.outcome
          /\ ret = first.ret
          /\ df_yearly = first.df_yearly
          /\ df_monthly = first.df_monthly
          /\ fig_rose = first.fig_rose

\* the second call of the drift wrapper on a table of two seasons has
\* returned the two yearly rows of the first
C19_Witness ==
    /\ op = "compute_snow_drift_plotly"
    /\ first.calls = 1
    /\ outcome = "ok"
    /\ Len(first.df_yearly) = 2
    /\ Len(heap) > 2
    /\ \E i \in 2..Len(heap) : heap[i] # <<>> /\ "Swe_hourly" \in DOMAIN heap[i][1]

\* the groups of an energy type
GroupsOfType(energy_type) ==
    IF energy_type = "production" THEN {"hydro", "wind", "solar", "thermal", "other"}
    ELSE {"cabin", "household", "primary", "secondary", "tertiary"}

\* C20: in every state of a session whose URL only the app writes, after
\* any page runs, widget changes and map clicks, the canonical
\* selected_groups is a non-empty list of groups allowed for the canonical
\* energy_type; global_sidebar has returned True; after the user deselects
\* every group, and after the user switches the energy type, selected_groups
\* is the full list of the groups allowed for the energy type.
C20_GroupsAllowed ==
    /\ ("selected_groups" \in DOMAIN session_state) =>
          LET groups == session_state["selected_groups"]
          IN /\ "energy_type" \in DOMAIN session_state
             /\ groups # <<>>
             /\ \A i \in 1..Len(groups) :
                   groups[i] \in GroupsOfType(session_state["energy_type"])
    /\ (op = "Map_Explorer") => ret = TRUE
    /\ (outcome = "_sync_all" /\ args.key = "_groups_widget" /\ args.value = <<>>) =>
          /\ Len(session_state["selected_groups"]) = 5
          /\ { session_state["selected_groups"][i] : i \in 1..5 }
                = GroupsOfType(session_state["energy_type"])
    /\ (outcome = "_sync_all" /\ args.key = "_energy_type_widget") =>
          /\ session_state["energy_type"] = args.value
          /\ Len(session_state["selected_groups"]) = 5
          /\ { session_state["selected_groups"][i] : i \in 1..5 } = GroupsOfType(args.value)

\* after a map click and a switch to consumption the user deselects every
\* group: all consumption groups are selected
C20_Witness ==
    /\ op = "Map_Explorer"
    /\ outcome = "_sync_all"
    /\ args.key = "_groups_widget"
    /\ args.value = <<>>
    /\ "click_log" \in DOMAIN session_state
    /\ session_state["energy_type"] = "consumption"
    /\ session_state["selected_groups"] = CONS_GROUPS
    /\ query_params["groups"] = join(",", CONS_GROUPS)

\* C21: at the end of a page run, a URL that carries the parameter area
\* carries the canonical price_area.
C21_UrlAreaIsCanonical ==
    (op \in {"Map_Explorer", "Energy_Explorer"} /\ outcome \in {"run", "stop"}
        /\ "area" \in DOMAIN query_params)
        => query_params["area"] = session_state["price_area"]

\* C22: with the four widget keys present, _sync_all leaves price_area,
\* energy_type and year equal to their widgets, selected_groups equal to the
\* mirror of the pills, and the URL equal to that canonical state (the year
\* as a string, the groups joined by commas, so that they split back to
\* selected_groups); with a widget key missing it changes neither the
\* session state nor the URL.
C22_SyncAll ==
    (op = "_sync_all") =>
       LET found == args.session_state
       IN IF WidgetKeys \subseteq DOMAIN found
          THEN /\ session_state["price_area"] = found["_price_area_widget"]
               /\ session_state["energy_type"] = found["_energy_type_widget"]
               /\ session_state["year"] = found["_year_widget"]
               /\ session_state["selected_groups"] = session_state["_groups_widget"]
               /\ query_params["area"] = session_state["price_area"]
               /\ query_params["type"] = session_state["energy_type"]
               /\ query_params["year"] = ToString(session_state["year"])
               /\ query_params["groups"] = join(",", session_state["selected_groups"])
               /\ split(query_params["groups"], ",") = session_state["selected_groups"]
          ELSE /\ session_state = found
               /\ query_params = args.query_params

\* the energy type changes while the pills still hold a group of the old type
C22_Witness ==
    /\ op = "_sync_all"
    /\ outcome = "synced"
    /\ args.session_state["_energy_type_widget"] = "consumption"
    /\ args.session_state["_groups_widget"] = <<"wind">>
    /\ args.query_params # EmptyDict
    /\ args.query_params["type"] = "production"
    /\ session_state["selected_groups"] = CONS_GROUPS
    /\ query_params["type"] = "consumption"

\* C23: for each analysis of the page, the first call records the parameters
\* and runs the analysis; later, with parameters that differ from the
\* recorded ones, the analysis runs and the parameters are recorded only in
\* the rerun of a press of its button, and otherwise neither happens; with
\* parameters equal to the recorded ones the analysis runs and the record
\* stays.
C23_RunOnDemand ==
    (op = "newB") =>
       \A k \in {"SPC", "LOF"} :
          LET rec     == last_params_(k)
              pressed == args.kind = "button" /\ args.key = k
          IN IF rec \notin DOMAIN args.found
             THEN ret[k] /\ session_state[rec] = args.params[k]
             ELSE IF args.params[k] = args.found[rec]
             THEN ret[k] /\ session_state[rec] = args.found[rec]
             ELSE IF pressed
             THEN ret[k] /\ session_state[rec] = args.params[k]
             ELSE ~ret[k] /\ session_state[rec] = args.found[rec]

\* the button of one analysis is pressed while the sliders of both have moved
C23_Witness ==
    /\ op = "newB"
    /\ args.kind = "button"
    /\ args.key = "LOF"
    /\ args.found[last_params_("LOF")] = "default"
    /\ args.found[last_params_("SPC")] = "default"
    /\ args.params = [SPC |-> "changed", LOF |-> "changed again"]
    /\ ret = [SPC |-> FALSE, LOF |-> TRUE]
    /\ session_state[last_params_("LOF")] = "changed again"
    /\ session_state[last_params_("SPC")] = "default"

\* Qt of the observations taken together
QtOfRows(rows, T, F, theta) ==
    compute_snow_transport(T, F, theta, SnowOfRows(rows),
                           Column(rows, "wind_speed_10m"), DefaultDt).Qt

\* the seasons with an observation in the caller's table, start_year..end_year only
SeasonsInRange(rows, start_year, end_year) ==
    { s \in start_year..end_year : RowsInRange(rows, s, s) # <<>> }

\* C24 as stated: the results depend on exactly the observations whose season
\* is in [start_year, end_year], those through June 30 of end_year + 1
\* included: there is one yearly result for every such season, made of all
\* the observations of the season, one monthly result for every month with
\* such an observation, made of all of them, and the directional result is
\* made of all of them; observations of the seasons start_year - 1 and
\* end_year + 1 are in none.
C24_SeasonRange ==
    (op \in {"compute_snow_drift_plotly", "compute_monthly_and_yearly_Qt_plotly"}
        /\ args.T # 0) =>
       LET included == RowsInRange(args.df_raw, args.start_year, args.end_year)
           seasons  == SeasonsInRange(args.df_raw, args.start_year, args.end_year)
       IN /\ { df_yearly[i].season : i \in 1..Len(df_yearly) } = seasons
          /\ \A i \in 1..Len(df_yearly) :
                df_yearly[i].Qt_yearly =
                   QtOfRows(RowsInRange(included, df_yearly[i].season, df_yearly[i].season),
                            args.T, args.F, args.theta)
          /\ (op = "compute_monthly_and_yearly_Qt_plotly") =>
                /\ { <<df_monthly[i].season, df_monthly[i].month>> : i \in 1..Len(df_monthly) }
                      = MonthPairs(WithSeason(included))
                /\ \A i \in 1..Len(df_monthly) :
                      df_monthly[i].Qt_monthly =
                         QtOfRows(SelectSeq(RowsInRange(included, df_monthly[i].season,
                                                        df_monthly[i].season),
                                            LAMBDA r : MonthStart(r.time) = df_monthly[i].month),
                                  args.T, args.F, args.theta)
          /\ (op = "compute_snow_drift_plotly" /\ included # <<>>) =>
                /\ Len(fig_rose) = 16
                /\ \A k \in 0..15 :
                      fig_rose[k + 1].r
                         = RatDivInt(MeanFromSector(WithSeason(included), k), 1000)

C26_EmptyYearlyReturns ==
    (op \in {"compute_snow_drift_plotly", "compute_monthly_and_yearly_Qt_plotly"}
        /\ df # <<>>
        /\ \A i \in 1..Len(df) : AfterJune30Minute(df[i].time)) =>
       /\ outcome \in {"no_data", "no_yearly"}
       /\ op = "compute_snow_drift_plotly" => ret = <<None, None, None>>
       /\ op = "compute_monthly_and_yearly_Qt_plotly"
             => ret = <<EmptyFigure, EmptyDataFrame, EmptyDataFrame>>

\* the monthly results an observation of the filtered table is part of
ResultsOf(row) ==
    { j \in 1..Len(df_monthly) :
         df_monthly[j].season = row.season /\ df_monthly[j].month = MonthStart(row.time) }

\* C27 as stated: whenever compute_monthly_and_yearly_Qt_plotly returns, every
\* observation the season filter kept is part of exactly one monthly result,
\* which is made of the observations of its month and no others, and every
\* month start is under one season only, the one assign_season gives it.
C27_MonthsPartition ==
    (op = "compute_monthly_and_yearly_Qt_plotly" /\ outcome \in {"ok", "no_yearly", "no_data"}) =>
        /\ \A i \in 1..Len(df) : Cardinality(ResultsOf(df[i])) = 1
        /\ \A j \in 1..Len(df_monthly) :
              /\ df_monthly[j].season = assign_season(df_monthly[j].month)
              /\ \A k \in 1..Len(df_monthly) :
                    df_monthly[k].month = df_monthly[j].month => k = j
              /\ df_monthly[j].Qt_monthly =
                    QtOfRows(SelectSeq(df, LAMBDA r : MonthStart(r.time) = df_monthly[j].month),
                             args.T, args.F, args.theta)

\* the entry the click log should hold at place i, the newest click first
EntryOfClick(i) ==
    LogEntry(clicked[Len(clicked) + 1 - i].point, clicked[Len(clicked) + 1 - i].groups)

\* C28: after any sequence of map clicks the click log holds at most 20
\* entries, and they are the entries of the most recent clicks, the newest
\* first; there is no log before the first click.
C28_ClickLog ==
    /\ ("click_log" \in DOMAIN session_state) <=> (clicked # <<>>)
    /\ ("click_log" \in DOMAIN session_state) =>
          /\ Len(session_state["click_log"]) <= 20
          /\ Len(session_state["click_log"]) = Min(Len(clicked), 20)
          /\ \A i \in 1..Len(session_state["click_log"]) :
                session_state["click_log"][i] = EntryOfClick(i)

\* 22 clicks, the first and the last on a price area: the log holds the last
\* 20, the entry of the first click is gone
C28_Witness ==
    /\ Len(clicked) = 22
    /\ clicked[1].point.feature = "NO 2"
    /\ clicked[22].point.feature = "NO 2"
    /\ Len(session_state["click_log"]) = 20
    /\ session_state["click_log"][1].Clicked_Area = "NO2"
    /\ \A i \in 2..20 : session_state["click_log"][i].Clicked_Area = "Outside Norway"

\* the click log of a session state, empty before the first click
LogOf(ss) == IF "click_log" \in DOMAIN ss THEN ss["click_log"] ELSE <<>>

\* C29: every map click sets active_popup to the clicked (lat, lon) and puts
\* one entry for it in the log; a click inside the polygon of a price area
\* sets price_area to that area, a click outside every polygon is logged as
\* "Outside Norway" and leaves price_area as it was; energy_type,
\* selected_groups and year are left as they were by every click.
C29_ClickEffect ==
    [][ (op' = "Map_Explorer" /\ outcome' = "rerun") =>
           LET point == args'.last_clicked[1]
           IN /\ session_state'["active_popup"] = <<point.lat, point.lng>>
              /\ Len(LogOf(session_state')) = Min(Len(LogOf(session_state)) + 1, 20)
              /\ LogOf(session_state')[1].Latitude = point.lat
              /\ LogOf(session_state')[1].Longitude = point.lng
              /\ \A i \in 2..Len(LogOf(session_state')) :
                    LogOf(session_state')[i] = LogOf(session_state)[i - 1]
              /\ IF point.feature = "NO 2"
                 THEN /\ session_state'["price_area"] = "NO2"
                      /\ LogOf(session_state')[1].Clicked_Area = "NO2"
                 ELSE /\ session_state'["price_area"] = session_state["price_area"]
                      /\ LogOf(session_state')[1].Clicked_Area = "Outside Norway"
              /\ \A k \in {"energy_type", "selected_groups", "year"} :
                    session_state'[k] = session_state[k]
      ]_vars

\* a click at sea while the price area is NO2 and the energy type consumption
C29_Witness ==
    /\ op = "Map_Explorer"
    /\ outcome = "rerun"
    /\ args.last_clicked[1].feature = None
    /\ session_state["active_popup"] = <<57, 3>>
    /\ session_state["click_log"][1].Clicked_Area = "Outside Norway"
    /\ session_state["price_area"] = "NO2"
    /\ session_state["energy_type"] = "consumption"

====
